---- MODULE Spec2Model ----
(***************************************************************************)
(* Scraping orchestration of the judicial process monitor:                 *)
(* ScrapingService.scrape_process / _create_process / _update_process /    *)
(* scrape_multiple_processes over ProcessRepository and ScraperFactory.    *)
(*                                                                         *)
(* Storage is modelled at the level of the repository operations: a write  *)
(* made through the repository is visible to every later read.  A stored   *)
(* process is keyed by its process_number (unique column).  Movements and  *)
(* documents of a process are bags of rows (the tables keep no order).     *)
(***************************************************************************)
EXTENDS Integers, Sequences, FiniteSets, Bags, TLC

\* ------------------------------------------------------------------ bounds
MaxTime == 2        \* the clock runs from 0 to MaxTime ticks
TicksPerHour == 2   \* clock ticks in one hour
MaxErrors == 2      \* scraping_errors is explored up to this value
MaxLen == 2         \* longest extracted movement list and document list
MaxBatch == 4       \* longest process_numbers list of a batch
MaxConc == 2        \* largest max_concurrent of a batch
MaxInstances == 3   \* scrapers made by ScraperFactory.create
MaxText == 4        \* longest text given to clean_text

\* ------------------------------------------------------- program constants
FreshHours == 1     \* "if hours_since_update < 1"
MAX_RETRIES == 3    \* settings.MAX_RETRIES

\* ----------------------------------------------------------------- values
None == << >>
Some(x) == << x >>

NULL == "NULL"
Values == {"a", "b"}

FieldNames ==
  {"subject", "class_type", "area", "distribution_date", "plaintiffs",
   "defendants", "lawyers", "judge", "case_value", "raw_html"}

\* the keys of update_data that come from process_data
UpdateFields ==
  {"subject", "class_type", "area", "judge", "case_value", "plaintiffs",
   "defendants", "lawyers", "raw_html"}

\* keys TJSPScraper.search_process always sets
AlwaysKeys == {"raw_html", "plaintiffs", "defendants", "lawyers"}

ProcNums == {"p1", "p2"}

\* court ids a caller may pass; "c0" is not a stored court
CourtIds == {"c0", "c1", "c2"}

\* the courts table: id -> acronym
Courts == [c \in {"c1", "c2"} |-> IF c = "c1" THEN "TJSP" ELSE "STJ"]

court_get_by_id_default(court_id) ==
  IF court_id \in DOMAIN Courts THEN Some(Courts[court_id]) ELSE Some("STJ")

\* CourtRepository.get_by_id
court_get_by_id(court_id) ==
  IF court_id \in DOMAIN Courts THEN Some(Courts[court_id]) ELSE None

upper_identity(s) == s

\* str.upper on the acronyms in use
upper(s) ==
  CASE s \in {"tjsp", "Tjsp"} -> "TJSP"
    [] s = "stj" -> "STJ"
    [] OTHER -> s

\* ScraperFactory._scrapers
Scrapers == {"TJSP"}

\* ScraperFactory.create: TRUE when a scraper is returned, FALSE when it raises
ScraperFactory_create(court_acronym) == upper(court_acronym) \in Scrapers

\* dict.get(key): the value, or None (NULL) when the key is absent
Get(d, k) == IF k \in DOMAIN d THEN d[k] ELSE NULL

\* --------------------------------------------------- what a site can serve
EmptyData == [f \in {} |-> NULL]

\* process_data dicts: a page carries a subset of the keys
PageKeys == {FieldNames, AlwaysKeys}
Pages == {[f \in D |-> v] : D \in PageKeys, v \in Values}

\* movement dicts; extra = the dict carries a key that is no Movement column
MovementDicts ==
  {[movement_date |-> 1, description |-> "x", extra |-> FALSE],
   [movement_date |-> 1, description |-> "y", extra |-> FALSE],
   [movement_date |-> 1, description |-> "x", extra |-> TRUE]}

DocumentDicts == {[title |-> "t1", extra |-> FALSE]}

SeqUpTo(S, n) == UNION {[1..k -> S] : k \in 0..n}

\* an adapter run: the facet that raises ("none" when all three return)
Failure(stage) ==
  [raises |-> stage, data |-> EmptyData, movements |-> << >>, documents |-> << >>]
Extraction(pd, md, dd) ==
  [raises |-> "none", data |-> pd, movements |-> md, documents |-> dd]

Failures == {Failure(s) : s \in {"search_process", "get_movements", "get_documents"}}

\* ------------------------------------------------------------------ state
VARIABLES
  processes,   \* the processes table with movements and documents
  now,         \* datetime.utcnow(), in ticks
  call,        \* the last finished scrape_process call: arguments, locals, result
  batch,       \* the scrape_multiple_processes call: arguments, progress, result
  semaphore,   \* the value of asyncio.Semaphore(max_concurrent)
  tasks,       \* the scrape_with_limit coroutines handed to asyncio.gather
  scraper,     \* a scraper in use: its HTTP session and the fetch call it runs
  factory,     \* ScraperFactory: _scrapers, the instances made, the last call
  util         \* the last call of a process-number function: argument and result

vars == << processes, now, call, batch, semaphore, tasks, scraper, factory, util >>

\* --------------------------------------------------------------- storage
EmptyDb == [p \in {} |-> 0]

\* ProcessRepository.get_by_process_number (with movements and documents)
get_by_process_number(db, process_number) ==
  IF process_number \in DOMAIN db THEN Some(db[process_number]) ELSE None

\* Movement(process_id=..., **mov_data) / Document(...): the stored row
MovementRow(m) == [movement_date |-> m.movement_date, description |-> m.description]
DocumentRow(d) == [title |-> d.title]

\* BaseRepository.update_by_id on the processes table
update_by_id(db, id, data) ==
  IF id \in DOMAIN db
    THEN [db EXCEPT ![id] = [k \in DOMAIN @ |-> IF k \in DOMAIN data THEN data[k] ELSE @[k]]]
    ELSE db

\* ProcessRepository.add_movement / add_document
add_movement_replacing(db, id, row) ==
  [db EXCEPT ![id].movements = SetToBag({row})]

add_movement(db, id, row) ==
  [db EXCEPT ![id].movements = @ (+) SetToBag({row})]
add_document(db, id, row) ==
  [db EXCEPT ![id].documents = @ (+) SetToBag({row})]

update_scraping_status_once(db, id, t) ==
  IF id \in DOMAIN db
    THEN [db EXCEPT ![id].last_scraped_at = Some(t), ![id].scraping_errors = 1]
    ELSE db

\* ProcessRepository.update_scraping_status(process_id, success=False)
update_scraping_status(db, id, t) ==
  IF id \in DOMAIN db
    THEN update_by_id(db, id,
           [last_scraped_at |-> Some(t),
            scraping_errors |-> db[id].scraping_errors + 1])
    ELSE db

NewProcess_unstamped(court_id, process_number, process_data, t) ==
  [k \in FieldNames \cup {"court_id", "process_number", "last_scraped_at",
                          "scraping_errors", "movements", "documents"} |->
     CASE k = "court_id" -> court_id
       [] k = "process_number" -> process_number
       [] k = "last_scraped_at" -> None
       [] k = "scraping_errors" -> 0
       [] k = "movements" -> EmptyBag
       [] k = "documents" -> EmptyBag
       [] OTHER -> Get(process_data, k)]

\* Process(...) as _create_process builds it; scraping_errors takes its default
NewProcess(court_id, process_number, process_data, t) ==
  [k \in FieldNames \cup {"court_id", "process_number", "last_scraped_at",
                          "scraping_errors", "movements", "documents"} |->
     CASE k = "court_id" -> court_id
       [] k = "process_number" -> process_number
       [] k = "last_scraped_at" -> Some(t)
       [] k = "scraping_errors" -> 0
       [] k = "movements" -> EmptyBag
       [] k = "documents" -> EmptyBag
       [] OTHER -> Get(process_data, k)]

\* BaseRepository.create on the processes table; process_number is unique
create(db, row) ==
  IF row.process_number \in DOMAIN db
    THEN [db |-> db, raised |-> TRUE]
    ELSE [db |-> [p \in DOMAIN db \cup {row.process_number} |->
                    IF p = row.process_number THEN row ELSE db[p]],
          raised |-> FALSE]

\* the loop "for mov_data in movements_data" of _create_process
RECURSIVE create_movements(_, _, _)
create_movements(db, id, movements_data) ==
  IF movements_data = << >> THEN [db |-> db, raised |-> FALSE]
  ELSE IF Head(movements_data).extra THEN [db |-> db, raised |-> TRUE]
  ELSE create_movements(add_movement(db, id, MovementRow(Head(movements_data))),
                        id, Tail(movements_data))

\* the loop "for doc_data in documents_data" of _create_process
RECURSIVE create_documents(_, _, _)
create_documents(db, id, documents_data) ==
  IF documents_data = << >> THEN [db |-> db, raised |-> FALSE]
  ELSE IF Head(documents_data).extra THEN [db |-> db, raised |-> TRUE]
  ELSE create_documents(add_document(db, id, DocumentRow(Head(documents_data))),
                        id, Tail(documents_data))

\* ScrapingService._create_process
create_process(db, court_id, process_number, process_data, movements_data, documents_data, t) ==
  LET c == create(db, NewProcess(court_id, process_number, process_data, t)) IN
  IF c.raised THEN c
  ELSE LET m == create_movements(c.db, process_number, movements_data) IN
       IF m.raised THEN m
       ELSE create_documents(m.db, process_number, documents_data)

\* the dedup key of a movement
MovementKey(m) == << m.movement_date, m.description >>

update_movements_all(db, id, existing_movements, movements_data) ==
  create_movements(db, id, movements_data)

\* the loop "for mov_data in movements_data" of _update_process;
\* existing_movements is computed once, before the loop
RECURSIVE update_movements(_, _, _, _)
update_movements(db, id, existing_movements, movements_data) ==
  IF movements_data = << >> THEN [db |-> db, raised |-> FALSE]
  ELSE IF MovementKey(Head(movements_data)) \in existing_movements
    THEN update_movements(db, id, existing_movements, Tail(movements_data))
  ELSE IF Head(movements_data).extra THEN [db |-> db, raised |-> TRUE]
  ELSE update_movements(add_movement(db, id, MovementRow(Head(movements_data))),
                        id, existing_movements, Tail(movements_data))

\* the loop "for doc_data in documents_data" of _update_process
RECURSIVE update_documents(_, _, _, _)
update_documents(db, id, existing_docs, documents_data) ==
  IF documents_data = << >> THEN [db |-> db, raised |-> FALSE]
  ELSE IF Head(documents_data).title \in existing_docs
    THEN update_documents(db, id, existing_docs, Tail(documents_data))
  ELSE IF Head(documents_data).extra THEN [db |-> db, raised |-> TRUE]
  ELSE update_documents(add_document(db, id, DocumentRow(Head(documents_data))),
                        id, existing_docs, Tail(documents_data))

\* update_data of _update_process
UpdateData(process_data, t) ==
  [k \in UpdateFields \cup {"last_scraped_at"} |->
     IF k = "last_scraped_at" THEN Some(t) ELSE Get(process_data, k)]

\* ScrapingService._update_process; process is the object read before the scrape
update_process(db, process, process_data, movements_data, documents_data, t) ==
  LET id == process.process_number
      db1 == update_by_id(db, id, UpdateData(process_data, t))
      existing_movements == {MovementKey(m) : m \in BagToSet(process.movements)}
      existing_docs == {d.title : d \in BagToSet(process.documents)}
      m == update_movements(db1, id, existing_movements, movements_data)
  IN IF m.raised THEN m
     ELSE update_documents(m.db, id, existing_docs, documents_data)

\* --------------------------------------------------------- scrape_process
Outcome(success, cached, mc, dc) ==
  [success |-> success, cached |-> cached, movements_count |-> mc,
   documents_count |-> dc]

RecentlyScraped_inclusive(t, last_scraped_at) ==
  (t - last_scraped_at) <= FreshHours * TicksPerHour

RecentlyScraped_ticks(t, last_scraped_at) == (t - last_scraped_at) < FreshHours

\* "hours_since_update < 1"
RecentlyScraped(t, last_scraped_at) ==
  (t - last_scraped_at) < FreshHours * TicksPerHour

\* the facets the scraper is asked for, in order, until one raises
FacetsCalled(site) ==
  CASE site.raises = "search_process" -> << "search_process" >>
    [] site.raises = "get_movements" -> << "search_process", "get_movements" >>
    [] OTHER -> << "search_process", "get_movements", "get_documents" >>

\* the except branch: "if process: update_scraping_status(process.id, False)"
RecordError(db, process, t) ==
  IF process # None THEN update_scraping_status(db, process[1].process_number, t)
  ELSE db

\* ScrapingService.scrape_process run from start to return at time t;
\* site is what the court site does if the scraper is used
scrape_process(db, t, process_number, court_id, force_update, site) ==
  LET court == court_get_by_id(court_id)
      process == get_by_process_number(db, process_number)
      failed(d, s, f) == [db |-> RecordError(d, process, t),
                          outcome |-> Outcome(FALSE, FALSE, 0, 0),
                          scraper |-> s, facets |-> f]
  IN
  IF court = None
    THEN [db |-> db, outcome |-> Outcome(FALSE, FALSE, 0, 0),
          scraper |-> FALSE, facets |-> << >>]
  ELSE IF /\ ~force_update
          /\ process # None
          /\ process[1].last_scraped_at # None
          /\ RecentlyScraped(t, process[1].last_scraped_at[1])
    THEN [db |-> db, outcome |-> Outcome(TRUE, TRUE, 0, 0),
          scraper |-> FALSE, facets |-> << >>]
  ELSE IF ~ScraperFactory_create(court[1])
    THEN failed(db, FALSE, << >>)
  ELSE IF site.raises # "none"
    THEN failed(db, TRUE, FacetsCalled(site))
  ELSE
    LET w == IF process # None
               THEN update_process(db, process[1], site.data, site.movements,
                                   site.documents, t)
               ELSE create_process(db, court_id, process_number, site.data,
                                   site.movements, site.documents, t)
    IN IF w.raised
         THEN failed(w.db, TRUE, FacetsCalled(site))
         ELSE [db |-> w.db,
               outcome |-> Outcome(TRUE, FALSE, Len(site.movements),
                                   Len(site.documents)),
               scraper |-> TRUE, facets |-> FacetsCalled(site)]

\* ------------------------------------------------- sequential scrape calls
\* the process numbers single scrape_process calls are made for
SeqNums == {"p1"}

FirstMovement == [movement_date |-> 1, description |-> "x", extra |-> FALSE]
FirstDocument == [title |-> "t1", extra |-> FALSE]

\* sites of Spec: any page, or a facet that raises; one movement, one document
SpecSites ==
  Failures \cup {Extraction(pd, << FirstMovement >>, << FirstDocument >>) : pd \in Pages}

\* sites of SpecRecon: one page, any movement and document lists
ReconSites ==
  {Extraction([f \in FieldNames |-> "a"], md, dd) :
     md \in SeqUpTo(MovementDicts, MaxLen), dd \in SeqUpTo(DocumentDicts, MaxLen)}

NoCall ==
  [op |-> "none", process_number |-> "p1", court_id |-> "c0",
   force_update |-> FALSE, at |-> 0, existed |-> FALSE,
   was_last_scraped_at |-> None, was_scraping_errors |-> 0,
   added_movements |-> 0, added_documents |-> 0,
   scraper |-> FALSE, facets |-> << >>,
   outcome |-> Outcome(FALSE, FALSE, 0, 0), streak |-> None]

\* the call got to the scraper and the scraper failed: no scraper for the
\* court, or a facet raised
AdapterFailed(court_id, site, r) ==
  /\ court_id \in DOMAIN Courts
  /\ ~r.outcome.success
  /\ (~ScraperFactory_create(Courts[court_id]) \/ site.raises # "none")

\* the number of calls in a row in which the adapter failed, counted from a
\* stored process with scraping_errors = 0; a call that never gets to the
\* scraper (court not found, cached) is no scrape and leaves the count alone
NextStreak(process_number, court_id, site, process, r) ==
  IF AdapterFailed(court_id, site, r)
    THEN IF process = None THEN None
         ELSE IF process[1].scraping_errors = 0 THEN Some(1)
         ELSE IF call.process_number = process_number /\ call.streak # None
           THEN Some(call.streak[1] + 1)
         ELSE None
  ELSE IF r.scraper THEN None
  ELSE IF call.process_number = process_number THEN call.streak
  ELSE None

\* how many movements / documents rows a process number has in storage
Stored(db, process_number, table) ==
  IF process_number \in DOMAIN db THEN BagCardinality(db[process_number][table]) ELSE 0

\* one scrape_process call, from the request to the returned dict
ScrapeProcessOf(numbers, courts, sites) ==
  \E process_number \in numbers, court_id \in courts, force_update \in BOOLEAN, site \in sites :
    \E r \in {scrape_process(processes, now, process_number, court_id, force_update, site)} :
    LET process == get_by_process_number(processes, process_number)
        streak == NextStreak(process_number, court_id, site, process, r)
    IN /\ \A p \in DOMAIN r.db : r.db[p].scraping_errors <= MaxErrors
       /\ streak # None => streak[1] <= MaxErrors
       /\ processes' = r.db
       /\ call' = [op |-> "scrape_process", process_number |-> process_number,
                   court_id |-> court_id, force_update |-> force_update,
                   at |-> now, existed |-> process # None,
                   was_last_scraped_at |->
                     IF process # None THEN process[1].last_scraped_at ELSE None,
                   was_scraping_errors |->
                     IF process # None THEN process[1].scraping_errors ELSE 0,
                   added_movements |-> Stored(r.db, process_number, "movements")
                                       - Stored(processes, process_number, "movements"),
                   added_documents |-> Stored(r.db, process_number, "documents")
                                       - Stored(processes, process_number, "documents"),
                   scraper |-> r.scraper, facets |-> r.facets,
                   outcome |-> r.outcome, streak |-> streak]
       /\ UNCHANGED << now, batch, semaphore, tasks, scraper, factory, util >>

ScrapeProcess(courts, sites) == ScrapeProcessOf(SeqNums, courts, sites)

Scrape == ScrapeProcess(CourtIds, SpecSites)

ScrapeRecon == ScrapeProcess({"c1"}, ReconSites)

\* time passes between calls
Tick ==
  /\ now < MaxTime
  /\ now' = now + 1
  /\ UNCHANGED << processes, call, batch, semaphore, tasks, scraper, factory, util >>

\* ------------------------------------------------ scrape_multiple_processes
\* what the court site serves to the tasks of a batch
BatchSites ==
  {Failure("search_process"),
   Extraction([f \in FieldNames |-> "a"], << FirstMovement >>, << FirstDocument >>)}

NoBatch ==
  [state |-> "idle", process_numbers |-> << >>, court_id |-> "c0",
   max_concurrent |-> 0, force_update |-> FALSE, result |-> None]

\* a coroutine scrape_with_limit(process_num) that has not run yet
NewTask ==
  [pc |-> "pending", process |-> None, site |-> None, result |-> None]

\* the storage call of scrape_process that raises, if one does
NoFaults == {"none"}
StorageFaults ==
  {"none", "get_by_id", "get_by_process_number", "update_scraping_status"}

\* what gather(return_exceptions=True) keeps of a task that raised
RaisedException == [exception |-> TRUE]

\* isinstance(r, dict)
IsDict(r) == "success" \in DOMAIN r

CanAcquire_unbounded(value) == TRUE

CanAcquire_nonnegative(value) == value >= 0

\* "async with semaphore": the coroutine goes on when the value is positive
CanAcquire(value) == value > 0

Aggregate_reversed(process_numbers, results) ==
  LET n == Len(results)
      success_count ==
        Cardinality({i \in DOMAIN results : IsDict(results[i]) /\ results[i].success})
  IN [total |-> Len(process_numbers), success |-> success_count,
      errors |-> n - success_count, results |-> [i \in 1..n |-> results[n + 1 - i]]]

Aggregate_dicts_only(process_numbers, results) ==
  LET success_count ==
        Cardinality({i \in DOMAIN results : IsDict(results[i]) /\ results[i].success})
  IN [total |-> Len(process_numbers), success |-> success_count,
      errors |-> Cardinality({i \in DOMAIN results :
                                IsDict(results[i]) /\ ~results[i].success}),
      results |-> results]

\* the dict scrape_multiple_processes returns
Aggregate(process_numbers, results) ==
  LET success_count ==
        Cardinality({i \in DOMAIN results : IsDict(results[i]) /\ results[i].success})
  IN [total |-> Len(process_numbers), success |-> success_count,
      errors |-> Len(results) - success_count, results |-> results]

\* the call: the semaphore is made and gather schedules one task per number
\* scrape_multiple_processes is called; force_update is the flag of the
\* request that asked for the batch, which is no argument of the call
StartBatchWith(lists, courts, limits, flags) ==
  \E process_numbers \in lists, court_id \in courts, max_concurrent \in limits,
     force_update \in flags :
    /\ batch.state = "idle"
    /\ batch' = [state |-> "running", process_numbers |-> process_numbers,
                 court_id |-> court_id, max_concurrent |-> max_concurrent,
                 force_update |-> force_update, result |-> None]
    /\ semaphore' = max_concurrent
    /\ tasks' = [i \in DOMAIN process_numbers |-> NewTask]
    /\ UNCHANGED << processes, now, call, scraper, factory, util >>

StartBatchOf(lists, courts) == StartBatchWith(lists, courts, 0..MaxConc, {FALSE})

\* max_concurrent of the endpoint scrape_batch
EndpointMaxConcurrent == 5

\* the endpoint scrape_batch with a ScrapingJobRequest
ScrapeBatchRequest ==
  StartBatchWith(SeqUpTo(ProcNums, MaxBatch - 2), {"c1"}, {EndpointMaxConcurrent}, BOOLEAN)

StartBatch == StartBatchOf(SeqUpTo(ProcNums, MaxBatch), CourtIds)

\* task i enters "async with semaphore" and starts scrape_process
BatchAcquire(i) ==
  /\ batch.state = "running"
  /\ tasks[i].pc = "pending"
  /\ CanAcquire(semaphore)
  /\ semaphore' = semaphore - 1
  /\ tasks' = [tasks EXCEPT ![i].pc = "lookup"]
  /\ UNCHANGED << processes, now, call, batch, scraper, factory, util >>

\* scrape_process of task i returns or raises: the "async with" block ends and
\* the semaphore is released
BatchFinish_keeps_slot_on_failure(i, db, outcome) ==
  /\ \A p \in DOMAIN db : db[p].scraping_errors <= MaxErrors
  /\ processes' = db
  /\ semaphore' = IF IsDict(outcome) /\ outcome.success THEN semaphore + 1 ELSE semaphore
  /\ tasks' = [tasks EXCEPT ![i].pc = "done", ![i].result = Some(outcome)]

BatchFinish(i, db, outcome) ==
  /\ \A p \in DOMAIN db : db[p].scraping_errors <= MaxErrors
  /\ processes' = db
  /\ semaphore' = semaphore + 1
  /\ tasks' = [tasks EXCEPT ![i].pc = "done", ![i].result = Some(outcome)]

BatchFail_without_status(i, db, process, faults) ==
  BatchFinish(i, db, Outcome(FALSE, FALSE, 0, 0))

\* the except branch of task i: update_scraping_status for a process that was
\* found, which may raise out of scrape_process, and the failure dict
\* the except branch of scrape_process. With the fault "interleaved" the
\* task stops inside update_scraping_status after its get_by_id, holding
\* the row it read, and other tasks may run before it writes
BatchFail(i, db, process, faults) ==
  \E fault \in faults :
    IF fault = "update_scraping_status" /\ process # None
      THEN BatchFinish(i, db, RaisedException)
    ELSE IF fault = "interleaved" /\ process # None
      THEN /\ processes' = db
           /\ semaphore' = semaphore
           /\ tasks' = [tasks EXCEPT
                          ![i].pc = "status",
                          ![i].process =
                            get_by_process_number(db, process[1].process_number)]
      ELSE BatchFinish(i, RecordError(db, process, now), Outcome(FALSE, FALSE, 0, 0))

\* task i: the court and the process are read (either read may raise, outside
\* the try), the freshness gate is passed or not, the scraper is made and its
\* HTTP session opened
Lookup(i, faults) ==
  /\ batch.state = "running"
  /\ tasks[i].pc = "lookup"
  /\ LET court == court_get_by_id(batch.court_id)
         process == get_by_process_number(processes, batch.process_numbers[i])
     IN \/ /\ "get_by_id" \in faults
           /\ BatchFinish(i, processes, RaisedException)
        \/ /\ "get_by_process_number" \in faults
           /\ court # None
           /\ BatchFinish(i, processes, RaisedException)
        \/ IF court = None
             THEN BatchFinish(i, processes, Outcome(FALSE, FALSE, 0, 0))
           ELSE IF /\ process # None
                   /\ process[1].last_scraped_at # None
                   /\ RecentlyScraped(now, process[1].last_scraped_at[1])
             THEN BatchFinish(i, processes, Outcome(TRUE, TRUE, 0, 0))
           ELSE IF ~ScraperFactory_create(court[1])
             THEN BatchFail(i, processes, process, faults)
           ELSE /\ tasks' = [tasks EXCEPT ![i].pc = "session", ![i].process = process]
                /\ UNCHANGED << processes, semaphore >>
  /\ UNCHANGED << now, call, batch, scraper, factory, util >>

BatchLookup(i) == Lookup(i, NoFaults)

\* task i: the three facets are fetched and the HTTP session is closed
Fetch(i, faults) ==
  /\ batch.state = "running"
  /\ tasks[i].pc = "session"
  /\ \E site \in BatchSites :
       IF site.raises # "none"
         THEN BatchFail(i, processes, tasks[i].process, faults)
         ELSE /\ tasks' = [tasks EXCEPT ![i].pc = "write", ![i].site = Some(site)]
              /\ UNCHANGED << processes, semaphore >>
  /\ UNCHANGED << now, call, batch, scraper, factory, util >>

BatchFetch(i) == Fetch(i, NoFaults)

\* task i: _update_process or _create_process, by the process read at lookup
Write_rereads(i, faults) ==
  /\ batch.state = "running"
  /\ tasks[i].pc = "write"
  /\ LET process == get_by_process_number(processes, batch.process_numbers[i])
         site == tasks[i].site[1]
     IN \E w \in {IF process # None
                    THEN update_process(processes, process[1], site.data,
                                        site.movements, site.documents, now)
                    ELSE create_process(processes, batch.court_id,
                                        batch.process_numbers[i], site.data,
                                        site.movements, site.documents, now)} :
          IF w.raised
            THEN BatchFail(i, w.db, process, faults)
            ELSE BatchFinish(i, w.db, Outcome(TRUE, FALSE, Len(site.movements),
                                              Len(site.documents)))
  /\ UNCHANGED << now, call, batch, scraper, factory, util >>

Write(i, faults) ==
  /\ batch.state = "running"
  /\ tasks[i].pc = "write"
  /\ LET process == tasks[i].process
         site == tasks[i].site[1]
     IN \E w \in {IF process # None
                    THEN update_process(processes, process[1], site.data,
                                        site.movements, site.documents, now)
                    ELSE create_process(processes, batch.court_id,
                                        batch.process_numbers[i], site.data,
                                        site.movements, site.documents, now)} :
          IF w.raised
            THEN BatchFail(i, w.db, process, faults)
            ELSE BatchFinish(i, w.db, Outcome(TRUE, FALSE, Len(site.movements),
                                              Len(site.documents)))
  /\ UNCHANGED << now, call, batch, scraper, factory, util >>

BatchWrite(i) == Write(i, NoFaults)

\* the second half of update_scraping_status(success=False): update_by_id
\* with the error count of the row read by its get_by_id, plus one
BatchStatus(i) ==
  /\ batch.state = "running"
  /\ tasks[i].pc = "status"
  /\ BatchFinish(i,
                 update_by_id(processes, tasks[i].process[1].process_number,
                              [last_scraped_at |-> Some(now),
                               scraping_errors |->
                                 tasks[i].process[1].scraping_errors + 1]),
                 Outcome(FALSE, FALSE, 0, 0))
  /\ UNCHANGED << now, call, batch, scraper, factory, util >>

BatchReturn_fail_fast ==
  /\ batch.state = "running"
  /\ \A i \in DOMAIN tasks : tasks[i].pc = "done" /\ IsDict(tasks[i].result[1])
  /\ batch' = [batch EXCEPT !.state = "returned",
                            !.result = Some(Aggregate(batch.process_numbers,
                                         [i \in DOMAIN tasks |-> tasks[i].result[1]]))]
  /\ UNCHANGED << processes, now, call, semaphore, tasks, scraper, factory, util >>

\* gather has every result: the counts are made and the dict is returned
BatchReturn ==
  /\ batch.state = "running"
  /\ \A i \in DOMAIN tasks : tasks[i].pc = "done"
  /\ batch' = [batch EXCEPT !.state = "returned",
                            !.result = Some(Aggregate(batch.process_numbers,
                                         [i \in DOMAIN tasks |-> tasks[i].result[1]]))]
  /\ UNCHANGED << processes, now, call, semaphore, tasks, scraper, factory, util >>

\* ------------------------------------------------- a scraper and its fetch
\* no scraper has been made
NoScraper ==
  [pc |-> "none", caller |-> "none", process_number |-> "p1", session |-> "none",
   attempts |-> 0, failures |-> 0, waits |-> 0, fetched |-> None, outcome |-> None]

\* who uses the scraper: scrape_process, inside "async with scraper", or code
\* that calls a facet of a scraper it never entered
Callers == {"scrape_process", "direct"}

\* the facets of TJSPScraper that call fetch, and the facet after each facet
FetchingFacets == {"search_process", "get_movements"}
Facets == {"search_process", "get_movements", "get_documents"}
NextFacet_skips(facet) == "get_documents"

NextFacet(facet) ==
  IF facet = "search_process" THEN "get_movements" ELSE "get_documents"

\* one attempt of fetch: without a session it raises RuntimeError, with one
\* the request gives the body or raises a request error
AttemptOutcomes(session) ==
  IF session = "open" THEN {"body", "ClientError"} ELSE {"RuntimeError"}

stop_after_attempt_late(max_attempt_number, attempt_number) ==
  attempt_number > max_attempt_number

\* tenacity stop_after_attempt(settings.MAX_RETRIES)
stop_after_attempt(max_attempt_number, attempt_number) ==
  attempt_number >= max_attempt_number

\* the retry condition of @retry with no retry argument: any exception
retry_if_exception(outcome) == outcome # "body"

\* the page and the lists TJSPScraper extracts (get_documents returns [])
ScraperSite ==
  Extraction([f \in FieldNames |-> "a"], << FirstMovement >>, << >>)

\* ScraperFactory.create gave a scraper to scrape_process(process_number,
\* TJSP court, force_update=True) or to a direct caller
ScraperCreate ==
  \E caller \in Callers, process_number \in ProcNums :
    /\ scraper.pc \in {"none", "returned", "raised"}
    /\ scraper' = [NoScraper EXCEPT !.pc = "created", !.caller = caller,
                                    !.process_number = process_number]
    /\ UNCHANGED << processes, now, call, batch, semaphore, tasks, factory, util >>

\* "async with scraper": __aenter__ opens the session, search_process is called
ScraperEnter ==
  /\ scraper.pc = "created" /\ scraper.caller = "scrape_process"
  /\ scraper' = [scraper EXCEPT !.pc = "search_process", !.session = "open"]
  /\ UNCHANGED << processes, now, call, batch, semaphore, tasks, factory, util >>

\* search_process is called on a scraper that was never entered
DirectCall ==
  /\ scraper.pc = "created" /\ scraper.caller = "direct"
  /\ scraper' = [scraper EXCEPT !.pc = "search_process"]
  /\ UNCHANGED << processes, now, call, batch, semaphore, tasks, factory, util >>

ScraperLeave_open(site, fetched) ==
  IF scraper.caller = "scrape_process"
    THEN \E r \in {scrape_process(processes, now, scraper.process_number, "c1",
                                   TRUE, site)} :
           /\ \A p \in DOMAIN r.db : r.db[p].scraping_errors <= MaxErrors
           /\ processes' = r.db
           /\ scraper' = [scraper EXCEPT !.pc = "returned",
                                          !.session = IF site.raises = "none"
                                                        THEN "closed" ELSE @,
                                          !.attempts = 0, !.failures = 0, !.waits = 0,
                                          !.fetched = fetched,
                                          !.outcome = Some(r.outcome)]
    ELSE /\ scraper' = [scraper EXCEPT !.pc = "raised", !.attempts = 0,
                                        !.failures = 0, !.waits = 0,
                                        !.fetched = fetched]
         /\ UNCHANGED processes

\* the facets are over (site.raises: the facet that raised, or "none"):
\* __aexit__ closes the session, and scrape_process writes and returns its
\* dict; a direct caller gets the exception
ScraperLeave(site, fetched) ==
  IF scraper.caller = "scrape_process"
    THEN \E r \in {scrape_process(processes, now, scraper.process_number, "c1",
                                   TRUE, site)} :
           /\ \A p \in DOMAIN r.db : r.db[p].scraping_errors <= MaxErrors
           /\ processes' = r.db
           /\ scraper' = [scraper EXCEPT !.pc = "returned", !.session = "closed",
                                          !.attempts = 0, !.failures = 0, !.waits = 0,
                                          !.fetched = fetched,
                                          !.outcome = Some(r.outcome)]
    ELSE /\ scraper' = [scraper EXCEPT !.pc = "raised", !.attempts = 0,
                                        !.failures = 0, !.waits = 0,
                                        !.fetched = fetched]
         /\ UNCHANGED processes

\* one HTTP attempt of the fetch call of the running facet, and what
\* tenacity does with its outcome: return the body, wait and retry, or give up
FetchAttempt ==
  /\ scraper.pc \in FetchingFacets
  /\ \E outcome \in AttemptOutcomes(scraper.session) :
       LET attempt_number == scraper.attempts + 1
           ended(result) == Some([attempts |-> attempt_number,
                                  failures |-> scraper.failures
                                               + (IF outcome = "body" THEN 0 ELSE 1),
                                  waits |-> scraper.waits,
                                  result |-> result, error |-> outcome])
       IN IF ~retry_if_exception(outcome)
            THEN /\ scraper' = [scraper EXCEPT !.pc = NextFacet(@), !.attempts = 0,
                                                !.failures = 0, !.waits = 0,
                                                !.fetched = ended("body")]
                 /\ UNCHANGED processes
          ELSE IF stop_after_attempt(MAX_RETRIES, attempt_number)
            THEN ScraperLeave(Failure(scraper.pc), ended("RetryError"))
          ELSE /\ scraper' = [scraper EXCEPT !.attempts = attempt_number,
                                              !.failures = @ + 1, !.waits = @ + 1]
               /\ UNCHANGED processes
  /\ UNCHANGED << now, call, batch, semaphore, tasks, factory, util >>

\* the running facet raises before it fetches (for example while it parses)
FacetRaise ==
  /\ scraper.pc \in Facets /\ scraper.attempts = 0
  /\ ScraperLeave(Failure(scraper.pc), scraper.fetched)
  /\ UNCHANGED << now, call, batch, semaphore, tasks, factory, util >>

\* get_documents returns its list without a fetch: the three facets are done
GetDocuments ==
  /\ scraper.pc = "get_documents"
  /\ ScraperLeave(ScraperSite, scraper.fetched)
  /\ UNCHANGED << now, call, batch, semaphore, tasks, factory, util >>

\* ---------------------------------------------------------- ProcessService
\* the fields of the schema ProcessUpdate
ProcessUpdateFields ==
  {"subject", "class_type", "area", "status", "current_location", "judge",
   "case_value", "plaintiffs", "defendants", "lawyers"}

\* the request bodies sent to update_process: any of a subject and a
\* process_number
Bodies ==
  {[k \in D |-> IF k = "subject" THEN v ELSE n] :
     D \in SUBSET {"subject", "process_number"}, v \in Values, n \in ProcNums}

ProcessUpdate_allow_extra(body) ==
  [k \in ProcessUpdateFields \cup DOMAIN body |-> IF k \in DOMAIN body THEN body[k] ELSE NULL]

\* ProcessUpdate(**body): the declared fields, None when absent; a key that
\* is not a field is dropped
ProcessUpdate(body) ==
  [k \in ProcessUpdateFields |-> IF k \in DOMAIN body THEN body[k] ELSE NULL]

\* ProcessService.update_process: the database after the call
ProcessService_update_process(db, process_id, body) ==
  LET data == ProcessUpdate(body)
      update_data == [k \in {f \in DOMAIN data : data[f] # NULL} |-> data[k]]
  IN IF DOMAIN update_data = {}
       THEN db
       ELSE update_by_id(db, process_id, update_data)

UpdateProcess ==
  \E process_id \in ProcNums, body \in Bodies :
    /\ processes' = ProcessService_update_process(processes, process_id, body)
    /\ call' = [NoCall EXCEPT !.op = "update_process",
                              !.process_number = process_id,
                              !.at = now,
                              !.existed = process_id \in DOMAIN processes]
    /\ UNCHANGED << now, batch, semaphore, tasks, scraper, factory, util >>

\* ---------------------------------------------------------- ScraperFactory
\* the acronyms create is called with
Acronyms == {"TJSP", "tjsp", "Tjsp", "STJ", "stj", ""}

\* the class attribute _scrapers, no instance made, no call made
NewFactory ==
  [scrapers |-> [k \in Scrapers |-> "TJSPScraper"], instances |-> << >>,
   last |-> [op |-> "none", acronym |-> "", result |-> None]]

\* ScraperFactory.create(court_acronym): a new instance of the registered
\* class, or ValueError (result None)
FactoryCreate ==
  \E court_acronym \in Acronyms :
    LET key == upper(court_acronym)
        instance == [id |-> Len(factory.instances) + 1,
                     class |-> factory.scrapers[key], acronym |-> court_acronym]
    IN /\ Len(factory.instances) < MaxInstances
       /\ IF key \in DOMAIN factory.scrapers
            THEN factory' = [factory EXCEPT
                               !.instances = Append(@, instance),
                               !.last = [op |-> "create", acronym |-> court_acronym,
                                         result |-> Some(instance)]]
            ELSE factory' = [factory EXCEPT
                               !.last = [op |-> "create", acronym |-> court_acronym,
                                         result |-> None]]
       /\ UNCHANGED << processes, now, call, batch, semaphore, tasks, scraper, util >>

\* ScraperFactory.get_available_courts()
GetAvailableCourts ==
  /\ factory' = [factory EXCEPT
                   !.last = [op |-> "get_available_courts", acronym |-> "",
                             result |-> Some(DOMAIN factory.scrapers)]]
  /\ UNCHANGED << processes, now, call, batch, semaphore, tasks, scraper, util >>

\* ------------------------------------------------------- process numbers
\* a str is the sequence of its characters
DigitChars == << "0", "1", "2", "3", "4", "5", "6", "7", "8", "9" >>

\* the str of a sequence of digit values
Str(ds) == [i \in DOMAIN ds |-> DigitChars[ds[i] + 1]]

\* the regular expression \d
IsDigit(c) == \E i \in DOMAIN DigitChars : DigitChars[i] = c

\* int(c) of one digit
DigitValue(c) == (CHOOSE i \in DOMAIN DigitChars : DigitChars[i] = c) - 1

\* re.sub(r'\D', '', s)
StripNonDigits(s) == SelectSeq(s, IsDigit)

\* s[a:b]
Slice(s, a, b) == SubSeq(s, a + 1, b)

\* int(s) of a short digit string
RECURSIVE int(_)
int(s) ==
  IF s = << >> THEN 0 ELSE 10 * int(SubSeq(s, 1, Len(s) - 1)) + DigitValue(s[Len(s)])

\* int(s) % m of a digit string of any length: int has no width in Python,
\* the remainder is taken digit by digit to stay within the machine integers
RECURSIVE int_mod(_, _)
int_mod(s, m) ==
  IF s = << >> THEN 0
  ELSE (10 * int_mod(SubSeq(s, 1, Len(s) - 1), m) + DigitValue(s[Len(s)])) % m

numero_base_with_dd(clean) == Slice(clean, 0, 13) \o Slice(clean, 13, Len(clean))

\* numero_base = nnnnnnn + aaaa + clean[13:]
numero_base(clean) ==
  Slice(clean, 0, 7) \o Slice(clean, 9, 13) \o Slice(clean, 13, Len(clean))

\* utils.validators.validate_cnj_number
validate_cnj_number(number) ==
  LET clean == StripNonDigits(number)
  IN IF Len(clean) # 20 THEN FALSE
     ELSE LET dd == Slice(clean, 7, 9)
              resto == int_mod(numero_base(clean), 97)
              dv_calculado == 98 - resto
          IN int(dd) = dv_calculado

format_process_number_dots(process_number) ==
  LET clean == StripNonDigits(process_number)
  IN IF Len(clean) = 20
       THEN Slice(clean, 0, 7) \o << "." >> \o Slice(clean, 7, 9) \o << "." >>
            \o Slice(clean, 9, 13) \o << "." >> \o << clean[14] >> \o << "." >>
            \o Slice(clean, 14, 16) \o << "." >> \o Slice(clean, 16, 20)
       ELSE clean

\* TJSPScraper._format_process_number
format_process_number(process_number) ==
  LET clean == StripNonDigits(process_number)
  IN IF Len(clean) = 20
       THEN Slice(clean, 0, 7) \o << "-" >> \o Slice(clean, 7, 9) \o << "." >>
            \o Slice(clean, 9, 13) \o << "." >> \o << clean[14] >> \o << "." >>
            \o Slice(clean, 14, 16) \o << "." >> \o Slice(clean, 16, 20)
       ELSE clean

\* the dict {}
EmptyDict == [k \in {} |-> << >>]

\* utils.helpers.extract_process_parts
extract_process_parts(process_number) ==
  LET clean == StripNonDigits(process_number)
  IN IF Len(clean) # 20 THEN EmptyDict
     ELSE [sequential |-> Slice(clean, 0, 7),
           verification_digit |-> Slice(clean, 7, 9),
           year |-> Slice(clean, 9, 13),
           justice_segment |-> << clean[14] >>,
           court |-> Slice(clean, 14, 16),
           origin |-> Slice(clean, 16, 20)]

\* the parts of the numbers the functions are called with
Sequentials == {Str(<< 1, 2, 3, 4, 5, 6, 7 >>), Str(<< 0, 0, 0, 0, 0, 9, 6 >>)}
CheckPairs == {Str(<< a, b >>) : a \in 0..9, b \in 0..9}
Years == {Str(<< 2, 0, 2, 4 >>), Str(<< 1, 9, 9, 9 >>)}
Rests == {Str(<< 1, 2, 3, 4, 5, 6, 7 >>), Str(<< 8, 2, 6, 0, 1, 0, 0 >>)}

\* strings of 20 digits
Digits20 ==
  {n \o dd \o a \o r : n \in Sequentials, dd \in CheckPairs, a \in Years, r \in Rests}

\* the arguments: 20 digits bare, in the displayed form, with other
\* characters around them, with a digit missing, with a digit too many,
\* and the empty string
NumberInputs ==
  Digits20
  \cup {format_process_number(d) : d \in Digits20}
  \cup {<< "n", " " >> \o d \o << "/" >> : d \in Digits20}
  \cup {SubSeq(d, 1, 19) : d \in Digits20}
  \cup {d \o << "0" >> : d \in Digits20}
  \cup {<< >>}

\* no call made yet, number is the argument of the calls to come
\* the process numbers as text: p1 and p2 are 20 digits, p1_displayed is p1
\* in the displayed form, p1_short has 19 digits
NumberText ==
  [n \in ProcNums \cup {"p1_displayed", "p1_short"} |->
     CASE n = "p1" -> Str(<< 1, 2, 3, 4, 5, 6, 7, 8, 9, 2, 0, 2, 4, 1, 2, 3, 4, 5, 6, 7 >>)
       [] n = "p2" -> Str(<< 0, 0, 0, 0, 0, 9, 6, 0, 2, 1, 9, 9, 9, 8, 2, 6, 0, 1, 0, 0 >>)
       [] n = "p1_displayed" ->
            format_process_number(
              Str(<< 1, 2, 3, 4, 5, 6, 7, 8, 9, 2, 0, 2, 4, 1, 2, 3, 4, 5, 6, 7 >>))
       [] n = "p1_short" -> Str(<< 1, 2, 3, 4, 5, 6, 7, 8, 9, 2, 0, 2, 4, 1, 2, 3, 4, 5, 6 >>)]

Numbers == DOMAIN NumberText

\* the process number with a given text
NumberOf(text) == CHOOSE n \in Numbers : NumberText[n] = text

\* ProcessBase.validate_process_number: the value stored in the field, or
\* None when it raises ValueError
validate_process_number(v) ==
  LET clean_number == StripNonDigits(NumberText[v])
  IN IF Len(clean_number) # 20 THEN None ELSE Some(NumberOf(clean_number))

\* Process(**data.model_dump()) of create_process: the fields of the page are
\* None, the process was never scraped
RegisteredProcess(court_id, process_number) ==
  [k \in FieldNames \cup {"court_id", "process_number", "last_scraped_at",
                          "scraping_errors", "movements", "documents"} |->
     CASE k = "court_id" -> court_id
       [] k = "process_number" -> process_number
       [] k = "last_scraped_at" -> None
       [] k = "scraping_errors" -> 0
       [] k = "movements" -> EmptyBag
       [] k = "documents" -> EmptyBag
       [] OTHER -> NULL]

\* ProcessCreate(process_number=v, court_id=...) and
\* ProcessService.create_process: the database after the call and whether
\* an error was raised
ProcessService_create_process(db, v, court_id) ==
  LET number == validate_process_number(v)
  IN IF number = None THEN [db |-> db, raised |-> TRUE]
     ELSE IF court_get_by_id(court_id) = None THEN [db |-> db, raised |-> TRUE]
     ELSE IF get_by_process_number(db, number[1]) # None
       THEN [db |-> db, raised |-> TRUE]
     ELSE create(db, RegisteredProcess(court_id, number[1]))

\* the numbers sent to create_process: 20 digits, the displayed form, 19 digits
CreateInputs == {"p1", "p1_displayed", "p1_short"}

CreateProcess ==
  \E v \in CreateInputs, court_id \in CourtIds :
    \E r \in {ProcessService_create_process(processes, v, court_id)} :
      /\ processes' = r.db
      /\ call' = [NoCall EXCEPT !.op = "create_process",
                                !.process_number = v,
                                !.court_id = court_id,
                                !.at = now,
                                !.outcome = Outcome(~r.raised, FALSE, 0, 0)]
      /\ UNCHANGED << now, batch, semaphore, tasks, scraper, factory, util >>

\* the numbers scrape_process is called with where processes are registered
RegistrationNums == {"p1", "p1_displayed"}

\* the court's site there: one page or a failed search
RegistrationSites == {ScraperSite, Failure("search_process")}

ScrapeRegistered == ScrapeProcessOf(RegistrationNums, {"c1"}, RegistrationSites)

NoUtil == [op |-> "none", number |-> << >>, result |-> FALSE]

ValidateCnjNumber ==
  /\ util' = [op |-> "validate_cnj_number", number |-> util.number,
              result |-> validate_cnj_number(util.number)]
  /\ UNCHANGED << processes, now, call, batch, semaphore, tasks, scraper, factory >>

FormatProcessNumber ==
  /\ util' = [op |-> "_format_process_number", number |-> util.number,
              result |-> format_process_number(util.number)]
  /\ UNCHANGED << processes, now, call, batch, semaphore, tasks, scraper, factory >>

ExtractProcessParts ==
  /\ util' = [op |-> "extract_process_parts", number |-> util.number,
              result |-> extract_process_parts(util.number)]
  /\ UNCHANGED << processes, now, call, batch, semaphore, tasks, scraper, factory >>

\* ------------------------------------------------------ TJSPScraper parsing

\* the characters of a text: two letters and three whitespace characters
TextChars == {"a", "b", " ", "\t", "\n"}

\* the regular expression \s, and the characters str.strip() removes
IsSpace(c) == c \in {" ", "\t", "\n"}

\* s with its leading whitespace removed
RECURSIVE lstrip(_)
lstrip(s) ==
  IF s # << >> /\ IsSpace(Head(s)) THEN lstrip(Tail(s)) ELSE s

\* s with its trailing whitespace removed
RECURSIVE rstrip(_)
rstrip(s) ==
  IF s # << >> /\ IsSpace(s[Len(s)]) THEN rstrip(SubSeq(s, 1, Len(s) - 1)) ELSE s

\* str.strip()
strip(s) == rstrip(lstrip(s))

\* re.sub(r'\s+', ' ', text): every maximal run of whitespace becomes one space
RECURSIVE sub_whitespace(_)
sub_whitespace(text) ==
  IF text = << >> THEN << >>
  ELSE IF IsSpace(Head(text)) THEN << " " >> \o sub_whitespace(lstrip(text))
  ELSE << Head(text) >> \o sub_whitespace(Tail(text))

clean_text_without_strip(text) == sub_whitespace(text)

\* BaseScraper.clean_text
clean_text(text) == strip(sub_whitespace(text))

\* the text of an element of the page, and the text of a date on the page
ElementText == << " ", "a", "\n", " ", "b", "\t" >>
DateText == << "\n", "d", " " >>

\* BaseScraper.parse_date: the first format that matches, or None
parse_date(date_str) == IF date_str = << "d" >> THEN Some("date") ELSE None

\* an element found by its id: missing or on the page; an element whose value
\* is in an inner span: missing, on the page without the span, or with it
Elem == {"absent", "present"}
Nested == {"absent", "container", "full"}

\* the result page of the search, by its optional elements
ResultPages ==
  [subject : Elem, class_type : Elem, area : Nested,
   distribution_date : {"absent", "date", "text"}, judge : Elem,
   case_value : Nested, parties : Elem]

\* the fields search_process extracts when their element is on the page
OptionalFields ==
  {"subject", "class_type", "area", "distribution_date", "judge", "case_value"}

\* the keys search_process always sets
FixedFields ==
  {"process_number", "raw_html", "scraped_at", "plaintiffs", "defendants", "lawyers"}

\* a row of tabelaTodasMovimentacoes by the cells it has, and the table
MovementRows_html == [date_cell : BOOLEAN, desc_cell : BOOLEAN, title : BOOLEAN]
MovementTables == {None} \cup {Some(rows) : rows \in SeqUpTo(MovementRows_html, MaxLen)}

Raised(error) == [raised |-> TRUE, error |-> error, value |-> None]
Returned_value(value) == [raised |-> FALSE, error |-> "none", value |-> Some(value)]

\* TJSPScraper._extract_parties for a table with one "Autor" row
extract_parties(page, party_type) ==
  IF page.parties = "present" /\ party_type = "Autor"
    THEN << [type |-> party_type, name |-> clean_text(ElementText)] >>
    ELSE << >>

\* the value of key f in the dict of search_process
SearchValue(page, process_number, t, f) ==
  CASE f = "process_number" -> process_number
    [] f = "raw_html" -> page
    [] f = "scraped_at" -> t
    [] f = "distribution_date" ->
         parse_date(clean_text(IF page.distribution_date = "date"
                                 THEN DateText ELSE ElementText))
    [] f = "plaintiffs" -> extract_parties(page, "Autor")
    [] f = "defendants" -> extract_parties(page, "Réu")
    [] f = "lawyers" -> << >>
    [] OTHER -> clean_text(ElementText)

\* TJSPScraper.search_process on a fetched page: area_elem.find("span") and
\* value_elem.find("span") are None when the span is missing, and .text of
\* None raises AttributeError
search_process(page, process_number, t) ==
  IF page.area = "container" \/ page.case_value = "container"
    THEN Raised("AttributeError")
    ELSE Returned_value(
           [f \in FixedFields \cup {g \in OptionalFields : page[g] # "absent"} |->
              SearchValue(page, process_number, t, f)])

\* one row of the table: a movement when it has both cells
RowMovement(row) ==
  [movement_date |-> parse_date(clean_text(DateText)),
   movement_type |-> IF row.title THEN clean_text(ElementText) ELSE "Sem tipo",
   description |-> clean_text(ElementText)]

\* TJSPScraper.get_movements on a fetched page
get_movements(table) ==
  Returned_value(
    IF table = None THEN << >>
    ELSE LET rows == SelectSeq(table[1], LAMBDA row : row.date_cell /\ row.desc_cell)
         IN [i \in DOMAIN rows |-> RowMovement(rows[i])])

\* the arguments of the calls: a text, a result page or a movement table
NoInput ==
  [kind |-> "none", text |-> << >>, page |-> CHOOSE page \in ResultPages : TRUE,
   table |-> None]
ParsingInputs ==
  {[NoInput EXCEPT !.kind = "text", !.text = text] :
     text \in SeqUpTo(TextChars, MaxText)}
    \cup {[NoInput EXCEPT !.kind = "page", !.page = page] : page \in ResultPages}
    \cup {[NoInput EXCEPT !.kind = "table", !.table = table] :
            table \in MovementTables}

CleanText ==
  /\ util.op = "none" /\ util.number.kind = "text"
  /\ util' = [util EXCEPT !.op = "clean_text",
                          !.result = clean_text(util.number.text)]
  /\ UNCHANGED << processes, now, call, batch, semaphore, tasks, scraper, factory >>

SearchProcess ==
  /\ util.op = "none" /\ util.number.kind = "page"
  /\ util' = [util EXCEPT !.op = "search_process",
                          !.result = search_process(util.number.page, "p1", now)]
  /\ UNCHANGED << processes, now, call, batch, semaphore, tasks, scraper, factory >>

GetMovements ==
  /\ util.op = "none" /\ util.number.kind = "table"
  /\ util' = [util EXCEPT !.op = "get_movements",
                          !.result = get_movements(util.number.table)]
  /\ UNCHANGED << processes, now, call, batch, semaphore, tasks, scraper, factory >>

Init ==
  /\ processes = EmptyDb
  /\ now = 0
  /\ call = NoCall
  /\ batch = NoBatch
  /\ semaphore = 0
  /\ tasks = << >>
  /\ scraper = NoScraper
  /\ factory = NewFactory
  /\ util = NoUtil

Next == Scrape \/ Tick

\* calls over time, with any page
Spec == Init /\ [][Next]_vars

NextRecon == ScrapeRecon

\* calls at one instant, with any movement and document lists
SpecRecon == Init /\ [][NextRecon]_vars

NextBatch ==
  \/ StartBatch
  \/ \E i \in DOMAIN tasks : BatchAcquire(i)
  \/ \E i \in DOMAIN tasks : BatchLookup(i)
  \/ \E i \in DOMAIN tasks : BatchFetch(i)
  \/ \E i \in DOMAIN tasks : BatchWrite(i)
  \/ BatchReturn

\* one batch, its tasks interleaved at their await points
SpecBatch == Init /\ [][NextBatch]_vars

NextFetch ==
  \/ ScraperCreate
  \/ ScraperEnter
  \/ DirectCall
  \/ FetchAttempt
  \/ FacetRaise
  \/ GetDocuments

\* scrapers used one after the other, each HTTP attempt a step
SpecFetch == Init /\ [][NextFetch]_vars

NextService == Scrape \/ Tick \/ UpdateProcess

\* scrapes and updates of the stored processes
SpecService == Init /\ [][NextService]_vars

NextBatchRequest ==
  \/ batch.state = "idle" /\ ScrapeProcess({"c1"}, BatchSites)
  \/ ScrapeBatchRequest
  \/ \E i \in DOMAIN tasks : BatchAcquire(i)
  \/ \E i \in DOMAIN tasks : BatchLookup(i)
  \/ \E i \in DOMAIN tasks : BatchFetch(i)
  \/ \E i \in DOMAIN tasks : BatchWrite(i)
  \/ BatchReturn

\* single scrapes, then a batch asked for through the endpoint
SpecBatchRequest == Init /\ [][NextBatchRequest]_vars

\* a page without movements and documents, besides the pages of a batch
RaceSites == BatchSites \cup {Extraction([f \in FieldNames |-> "a"], << >>, << >>)}

\* a batch that lists one number up to twice
StartRaceBatch == StartBatchOf(SeqUpTo(SeqNums, 2), {"c1"})

NextRace ==
  \/ batch.state = "idle" /\ ScrapeProcess({"c1"}, RaceSites)
  \/ batch.state = "idle" /\ Tick
  \/ StartRaceBatch
  \/ \E i \in DOMAIN tasks : BatchAcquire(i)
  \/ \E i \in DOMAIN tasks : Lookup(i, {"interleaved"})
  \/ \E i \in DOMAIN tasks : Fetch(i, {"interleaved"})
  \/ \E i \in DOMAIN tasks : Write(i, {"interleaved"})
  \/ \E i \in DOMAIN tasks : BatchStatus(i)
  \/ BatchReturn

\* single scrapes over time, then a batch whose tasks may share a number
SpecRace == Init /\ [][NextRace]_vars

\* lists of pairwise distinct process numbers
DistinctLists ==
  {list \in SeqUpTo(ProcNums, Cardinality(ProcNums)) :
     \A i, j \in DOMAIN list : i # j => list[i] # list[j]}

\* scrape_multiple_processes is called with distinct numbers; the batch
\* record also keeps the stored processes the call starts with
StartOrderedBatch ==
  \E process_numbers \in DistinctLists, max_concurrent \in 1..MaxConc :
    /\ batch.state = "idle"
    /\ batch' = [state |-> "running", process_numbers |-> process_numbers,
                 court_id |-> "c1", max_concurrent |-> max_concurrent,
                 force_update |-> FALSE, result |-> None,
                 started_with |-> processes]
    /\ semaphore' = max_concurrent
    /\ tasks' = [i \in DOMAIN process_numbers |-> NewTask]
    /\ UNCHANGED << processes, now, call, scraper, factory, util >>

\* single scrapes at different times, then one batch over distinct numbers
NextOrder ==
  \/ batch.state = "idle" /\ ScrapeProcessOf(ProcNums, {"c1"}, BatchSites)
  \/ batch.state = "idle" /\ Tick
  \/ StartOrderedBatch
  \/ \E i \in DOMAIN tasks : BatchAcquire(i)
  \/ \E i \in DOMAIN tasks : BatchLookup(i)
  \/ \E i \in DOMAIN tasks : BatchFetch(i)
  \/ \E i \in DOMAIN tasks : BatchWrite(i)
  \/ BatchReturn

SpecOrder == Init /\ [][NextOrder]_vars

\* the order of "last_scraped_at ASC NULLS FIRST": a may come before b
NullsFirstAsc(a, b) ==
  \/ a.last_scraped_at = None
  \/ b.last_scraped_at # None /\ a.last_scraped_at[1] <= b.last_scraped_at[1]

\* ProcessRepository.get_processes_to_scrape at time t: the lists the query
\* may return (rows with equal keys come in any order). cutoff_time is
\* utcnow(); hours_since_last_scrape is not used
get_processes_to_scrape(db, t, court_id, hours_since_last_scrape, limit) ==
  LET cutoff_time == t
      rows == {db[p] : p \in {q \in DOMAIN db :
                 /\ db[q].court_id = court_id
                 /\ \/ db[q].last_scraped_at = None
                    \/ db[q].last_scraped_at[1] < cutoff_time}}
      n == Cardinality(rows)
      ordered == {list \in [1..n -> rows] :
                    /\ \A i, j \in 1..n : i # j => list[i] # list[j]
                    /\ \A i, j \in 1..n : i < j => NullsFirstAsc(list[i], list[j])}
  IN {SubSeq(list, 1, IF limit < n THEN limit ELSE n) : list \in ordered}

\* a caller asks for the processes of a court that need a scrape
GetProcessesToScrape ==
  \E court_id \in {"c1", "c2"}, hours \in 0..1, limit \in 0..Cardinality(ProcNums) :
    \E result \in get_processes_to_scrape(processes, now, court_id, hours, limit) :
      /\ util' = [op |-> "get_processes_to_scrape", number |-> << >>,
                  court_id |-> court_id, hours |-> hours, limit |-> limit,
                  at |-> now, result |-> result]
      /\ UNCHANGED << processes, now, call, batch, semaphore, tasks, scraper, factory >>

\* processes are registered and scraped at different times, then the query
NextSelect ==
  \/ util.op = "none" /\ CreateProcess
  \/ util.op = "none" /\ ScrapeProcessOf(ProcNums, {"c1"}, BatchSites)
  \/ util.op = "none" /\ Tick
  \/ util.op = "none" /\ GetProcessesToScrape

SpecSelect == Init /\ [][NextSelect]_vars

NextRegistration == ScrapeRegistered \/ CreateProcess \/ Tick

\* registrations and scrapes of numbers in both forms
SpecRegistration == Init /\ [][NextRegistration]_vars

NextNumbers == ValidateCnjNumber \/ FormatProcessNumber \/ ExtractProcessParts

\* the functions are called with any of the arguments
InitNumbers ==
  /\ processes = EmptyDb
  /\ now = 0
  /\ call = NoCall
  /\ batch = NoBatch
  /\ semaphore = 0
  /\ tasks = << >>
  /\ scraper = NoScraper
  /\ factory = NewFactory
  /\ util \in {[NoUtil EXCEPT !.number = number] : number \in NumberInputs}

\* calls of the process-number functions
SpecNumbers == InitNumbers /\ [][NextNumbers]_vars

NextParsing == CleanText \/ SearchProcess \/ GetMovements

\* the parsing functions are called with any of the arguments
InitParsing ==
  /\ processes = EmptyDb
  /\ now = 0
  /\ call = NoCall
  /\ batch = NoBatch
  /\ semaphore = 0
  /\ tasks = << >>
  /\ scraper = NoScraper
  /\ factory = NewFactory
  /\ util \in {[NoUtil EXCEPT !.number = input] : input \in ParsingInputs}

\* calls of clean_text and of the parsers of TJSPScraper
SpecParsing == InitParsing /\ [][NextParsing]_vars

NextFactory == FactoryCreate \/ GetAvailableCourts

\* calls of the factory
SpecFactory == Init /\ [][NextFactory]_vars

\* a short batch for the court with a scraper
StartShortBatch == StartBatchOf(SeqUpTo(ProcNums, MaxBatch - 2), {"c1"})

\* single scrapes and a batch, made one after the other
NextSession ==
  \/ batch.state # "running" /\ ScraperCreate
  \/ ScraperEnter
  \/ DirectCall
  \/ FetchAttempt
  \/ FacetRaise
  \/ GetDocuments
  \/ scraper.pc \in {"none", "returned", "raised"} /\ StartShortBatch
  \/ \E i \in DOMAIN tasks : BatchAcquire(i)
  \/ \E i \in DOMAIN tasks : BatchLookup(i)
  \/ \E i \in DOMAIN tasks : BatchFetch(i)
  \/ \E i \in DOMAIN tasks : BatchWrite(i)
  \/ BatchReturn

SpecSession == Init /\ [][NextSession]_vars

\* a batch for the court with a scraper, whose storage calls may raise
StartFaultyBatch == StartBatchOf(SeqUpTo(ProcNums, MaxBatch - 1), {"c1"})

NextBatchFault ==
  \/ StartFaultyBatch
  \/ \E i \in DOMAIN tasks : BatchAcquire(i)
  \/ \E i \in DOMAIN tasks : Lookup(i, StorageFaults)
  \/ \E i \in DOMAIN tasks : Fetch(i, StorageFaults)
  \/ \E i \in DOMAIN tasks : Write(i, StorageFaults)
  \/ BatchReturn

\* the event loop runs a task that can go on: every await of a task returns
SpecBatchFault == Init /\ [][NextBatchFault]_vars /\ WF_vars(NextBatchFault)

\* ------------------------------------------------------------- properties
\* the rows of an extracted list, each as often as the list holds it
RECURSIVE MovementRows(_)
MovementRows(list) ==
  IF list = << >> THEN EmptyBag
  ELSE SetToBag({MovementRow(Head(list))}) (+) MovementRows(Tail(list))

RECURSIVE DocumentRows(_)
DocumentRows(list) ==
  IF list = << >> THEN EmptyBag
  ELSE SetToBag({DocumentRow(Head(list))}) (+) DocumentRows(Tail(list))

Row1 == processes["p1"]
Succeeded(outcome) == outcome.success /\ ~outcome.cached

\* C1: a successful reconciliation of a stored process followed at once by a
\* forced reconciliation with the same extracted movements and documents: the
\* second one succeeds and stores no further movement and no further document
C1_IdempotentMerge ==
  \A pn \in DOMAIN processes, force \in BOOLEAN, site \in ReconSites :
    \A r1 \in {scrape_process(processes, now, pn, "c1", force, site)} :
      Succeeded(r1.outcome) =>
        \A r2 \in {scrape_process(r1.db, now, pn, "c1", TRUE, site)} :
          /\ Succeeded(r2.outcome)
          /\ r2.db[pn].movements = r1.db[pn].movements
          /\ r2.db[pn].documents = r1.db[pn].documents

\* a merge that extracted movements and a document and stored none of them
C1_Witness ==
  /\ call.op = "scrape_process" /\ call.existed /\ Succeeded(call.outcome)
  /\ call.outcome.movements_count = 2 /\ call.outcome.documents_count = 2
  /\ call.added_movements = 0 /\ call.added_documents = 0
  /\ \E site \in ReconSites :
       \E r1 \in {scrape_process(processes, now, "p1", "c1", TRUE, site)} :
       /\ Succeeded(r1.outcome)
       /\ BagCardinality(r1.db["p1"].movements) > BagCardinality(Row1.movements)

\* C2: no stored process holds two movements with the same
\* (movement_date, description)
C2_NoDuplicateMovements ==
  \A pn \in DOMAIN processes :
    \A m \in BagToSet(processes[pn].movements) :
      CopiesIn(m, processes[pn].movements) = 1

\* C3: a successful merge leaves every field the extraction does not carry
\* at its stored non-null value
C3_AbsentFieldsKept ==
  \A pn \in DOMAIN processes, court_id \in CourtIds, force \in BOOLEAN, site \in SpecSites :
    \A r \in {scrape_process(processes, now, pn, court_id, force, site)} :
    Succeeded(r.outcome) =>
      \A f \in UpdateFields \ {"raw_html"} :
        (f \notin DOMAIN site.data /\ processes[pn][f] # NULL)
          => r.db[pn][f] = processes[pn][f]

\* C4: after a non-cached success for a stored process with scraping_errors > 0,
\* scraping_errors is 0 and last_scraped_at is the time of the scrape
C4_SuccessResetsErrors ==
  (/\ call.op = "scrape_process" /\ call.existed
   /\ Succeeded(call.outcome) /\ call.was_scraping_errors > 0)
    => /\ Row1.scraping_errors = 0
       /\ Row1.last_scraped_at = Some(call.at)

\* C5: N calls in a row in which the adapter fails, from a stored process with
\* scraping_errors = 0 and with no successful extraction in between, leave
\* scraping_errors = N
C5_ErrorsCountFailures ==
  call.streak # None =>
    /\ call.process_number \in DOMAIN processes
    /\ processes[call.process_number].scraping_errors = call.streak[1]

\* two failed scrapes in a row: one of a facet, one for a court without scraper
C5_Witness ==
  /\ call.op = "scrape_process" /\ call.streak = Some(2)
  /\ call.court_id = "c2" /\ call.was_scraping_errors = 1
  /\ Row1.scraping_errors = 2

\* C6: a failed scrape of a stored process leaves last_scraped_at as it was
C6_FailureKeepsLastScraped ==
  (call.op = "scrape_process" /\ call.existed /\ ~call.outcome.success)
    => processes[call.process_number].last_scraped_at = call.was_last_scraped_at

AllExtractions ==
  {Extraction(pd, md, dd) : pd \in Pages, md \in SeqUpTo(MovementDicts, MaxLen),
                            dd \in SeqUpTo(DocumentDicts, MaxLen)}

\* C8: a non-cached success for a process number with no stored process stores
\* one process with the extracted fields, last_scraped_at = the time of the
\* scrape, scraping_errors = 0, and exactly the extracted movements and documents
C8_CreateFromAbsent ==
  \A pn \in SeqNums \ DOMAIN processes, court_id \in CourtIds, force \in BOOLEAN,
     site \in AllExtractions :
    \A r \in {scrape_process(processes, now, pn, court_id, force, site)} :
    Succeeded(r.outcome) =>
      /\ DOMAIN r.db = DOMAIN processes \cup {pn}
      /\ \A p \in DOMAIN processes : r.db[p] = processes[p]
      /\ r.db[pn].process_number = pn
      /\ r.db[pn].court_id = court_id
      /\ \A f \in FieldNames : r.db[pn][f] = Get(site.data, f)
      /\ r.db[pn].last_scraped_at = Some(now)
      /\ r.db[pn].scraping_errors = 0
      /\ r.db[pn].movements = MovementRows(site.movements)
      /\ r.db[pn].documents = DocumentRows(site.documents)
      /\ BagCardinality(r.db[pn].movements) = r.outcome.movements_count
      /\ BagCardinality(r.db[pn].documents) = r.outcome.documents_count

\* a process created with two movements and one document
C8_Witness ==
  /\ call.op = "scrape_process" /\ ~call.existed /\ Succeeded(call.outcome)
  /\ "p1" \in DOMAIN processes
  /\ call.outcome.movements_count = 2 /\ call.added_movements = 2
  /\ call.outcome.documents_count = 1 /\ call.added_documents = 1
  /\ Row1.scraping_errors = 0 /\ Row1.last_scraped_at = Some(call.at)

Fresh(pn) ==
  /\ pn \in DOMAIN processes
  /\ processes[pn].last_scraped_at # None
  /\ (now - processes[pn].last_scraped_at[1]) < FreshHours * TicksPerHour

Cached(r) ==
  /\ r.outcome.success /\ r.outcome.cached
  /\ ~r.scraper /\ r.facets = << >>
  /\ r.db = processes

\* C9 as stated: force_update = false and a stored process scraped less than
\* one hour ago give a cached success, no scraper, no fetch, storage unchanged
C9_Original ==
  \A pn \in ProcNums, court_id \in CourtIds, site \in SpecSites :
    Fresh(pn) =>
      \A r \in {scrape_process(processes, now, pn, court_id, FALSE, site)} : Cached(r)

\* C9 amended: the same, for a court id that is stored
C9_FreshnessShortCircuit ==
  \A pn \in ProcNums, court_id \in DOMAIN Courts, site \in SpecSites :
    Fresh(pn) =>
      \A r \in {scrape_process(processes, now, pn, court_id, FALSE, site)} : Cached(r)

\* a cached return for a process scraped one tick (less than an hour) earlier
C9_Witness ==
  /\ call.op = "scrape_process" /\ call.existed /\ ~call.force_update
  /\ call.outcome.success /\ call.outcome.cached
  /\ call.was_last_scraped_at = Some(call.at - 1)
  /\ ~call.scraper /\ call.facets = << >>

\* the tasks of the batch that have started scrape_process and not finished it
Running ==
  {i \in DOMAIN tasks : tasks[i].pc \in {"lookup", "session", "write", "status"}}

\* the tasks of the batch whose scraper holds an open HTTP session
OpenSessions == {i \in DOMAIN tasks : tasks[i].pc = "session"}

\* C10: during a batch at most max_concurrent scrape_process executions have
\* started and not finished, so at most max_concurrent HTTP sessions are open,
\* and a task starts only while fewer than max_concurrent are running
C10_ConcurrencyCap ==
  /\ [](/\ Cardinality(Running) <= batch.max_concurrent
        /\ Cardinality(OpenSessions) <= batch.max_concurrent)
  /\ [][\A i \in DOMAIN tasks :
          (tasks[i].pc = "pending" /\ tasks'[i].pc # "pending")
            => Cardinality(Running) < batch.max_concurrent]_vars

\* the cap of two is reached with two sessions open, one task has finished
\* and one is still waiting for the semaphore
C10_Witness ==
  /\ batch.state = "running" /\ batch.max_concurrent = 2
  /\ Cardinality(OpenSessions) = 2
  /\ \E i \in DOMAIN tasks : tasks[i].pc = "pending"
  /\ \E i \in DOMAIN tasks : tasks[i].pc = "done"

\* the dict a returned batch gave back
Returned == batch.state = "returned"
BatchResult == batch.result[1]

\* a task that ended with a failure dict or by raising
TaskFailed(i) ==
  /\ tasks[i].pc = "done"
  /\ ~(IsDict(tasks[i].result[1]) /\ tasks[i].result[1].success)

\* C11: a batch with max_concurrent >= 1 returns, and when it has returned
\* scrape_process has ended for every listed number, whatever ended in failure
C11_BatchTerminates ==
  /\ (batch.state = "running" /\ batch.max_concurrent >= 1) ~> Returned
  /\ [](Returned =>
         /\ DOMAIN tasks = DOMAIN batch.process_numbers
         /\ \A i \in DOMAIN tasks : tasks[i].pc = "done" /\ tasks[i].result # None)

\* a task has failed (one of them by raising) while a sibling has not started
C11_Witness ==
  /\ batch.state = "running" /\ batch.max_concurrent >= 1
  /\ \E i, j \in DOMAIN tasks :
       /\ TaskFailed(i) /\ tasks[i].result[1] = RaisedException
       /\ tasks[j].pc = "pending"

\* C12: the returned total is the length of the input list, results has that
\* length, and results[i] is what scrape_process of the i-th number ended with
C12_InputOrder ==
  Returned =>
    /\ BatchResult.total = Len(batch.process_numbers)
    /\ Len(BatchResult.results) = Len(batch.process_numbers)
    /\ \A i \in DOMAIN batch.process_numbers :
         BatchResult.results[i] = tasks[i].result[1]

\* the number listed twice: the second task created the process and ended
\* before the first task read it, and the cached dict still comes first
C12_Witness ==
  /\ Returned /\ batch.process_numbers = << "p1", "p1" >>
  /\ BatchResult.results[1] = Outcome(TRUE, TRUE, 0, 0)
  /\ BatchResult.results[2] = Outcome(TRUE, FALSE, 1, 1)

\* the number of success dicts among the first n results
RECURSIVE CountSuccess(_, _)
CountSuccess(results, n) ==
  IF n = 0 THEN 0
  ELSE CountSuccess(results, n - 1)
       + (IF IsDict(results[n]) /\ results[n].success THEN 1 ELSE 0)

\* C13: success is the number of results with success = true (cached ones
\* included), errors is the number of all the others, and they add up to total
C13_AggregateCounts ==
  Returned =>
    LET n == Len(BatchResult.results) IN
    /\ BatchResult.success = CountSuccess(BatchResult.results, n)
    /\ BatchResult.errors = n - CountSuccess(BatchResult.results, n)
    /\ BatchResult.success + BatchResult.errors = BatchResult.total

\* three items: a cached success, a non-cached success and one that failed
C13_Witness ==
  /\ Returned /\ BatchResult.total = 3
  /\ BatchResult.success = 2 /\ BatchResult.errors = 1
  /\ \E i \in 1..3 : BatchResult.results[i] = Outcome(TRUE, TRUE, 0, 0)
  /\ \E i \in 1..3 : ~IsDict(BatchResult.results[i])

\* C14: scrape_process never raises: every task ends with a dict that carries
\* a success flag, and so does every element of the returned results
C14_NoRaise ==
  /\ \A i \in DOMAIN tasks : tasks[i].result # None => IsDict(tasks[i].result[1])
  /\ Returned => \A i \in DOMAIN BatchResult.results : IsDict(BatchResult.results[i])

\* the fetch call that ended last
Fetched == scraper.fetched[1]

\* C15: a fetch call makes at most MAX_RETRIES attempts, ends with the body at
\* its first successful attempt, ends in failure only after MAX_RETRIES failed
\* attempts, and scrape_process then returns a failure dict
C15_BoundedRetry ==
  /\ scraper.attempts < MAX_RETRIES
  /\ scraper.failures = scraper.attempts
  /\ scraper.fetched # None =>
       /\ Fetched.attempts <= MAX_RETRIES
       /\ Fetched.result = "body" =>
            Fetched.error = "body" /\ Fetched.failures = Fetched.attempts - 1
       /\ Fetched.result # "body" =>
            Fetched.attempts = MAX_RETRIES /\ Fetched.failures = MAX_RETRIES
       /\ (scraper.pc = "returned" /\ Fetched.result # "body") =>
            ~scraper.outcome[1].success

\* the third request of get_movements failed like the two before it: the
\* fetch gave up and scrape_process returned a failure dict
C15_Witness ==
  /\ scraper.pc = "returned" /\ scraper.caller = "scrape_process"
  /\ scraper.fetched # None /\ Fetched.result = "RetryError"
  /\ Fetched.attempts = MAX_RETRIES /\ Fetched.error = "ClientError"
  /\ ~scraper.outcome[1].success

\* C16: a fetch whose attempt fails with an error that is no request error
\* makes one attempt, does not wait, and ends with that error
C16_NonTransientNotRetried ==
  /\ (scraper.fetched # None /\ Fetched.error = "RuntimeError") =>
       /\ Fetched.attempts = 1 /\ Fetched.waits = 0
       /\ Fetched.result = "RuntimeError"
  /\ scraper.session # "open" => scraper.attempts = 0

\* C19: in scrape_process a facet runs and a request is made only while the
\* session is open, the session is closed when scrape_process has returned,
\* and no task of a returned batch holds an open session
C19_ScopedSession ==
  /\ scraper.caller = "scrape_process" =>
       /\ scraper.pc \in Facets => scraper.session = "open"
       /\ scraper.attempts > 0 => scraper.session = "open"
       /\ scraper.fetched # None => scraper.session \in {"open", "closed"}
       /\ scraper.pc = "returned" => scraper.session = "closed"
  /\ Returned => OpenSessions = {}

\* a scrape that failed in get_movements after a fetch of search_process has
\* returned with its session closed, and a batch of two has returned
C19_Witness ==
  /\ scraper.caller = "scrape_process" /\ scraper.pc = "returned"
  /\ scraper.session = "closed" /\ ~scraper.outcome[1].success
  /\ scraper.fetched # None
  /\ Returned /\ Len(tasks) = 2
  /\ \E i \in DOMAIN tasks : tasks[i].site # None

\* the courts without a registered scraper
UnsupportedCourts == {c \in DOMAIN Courts : ~ScraperFactory_create(Courts[c])}

\* C17: scrape_process for a court without a registered scraper returns a
\* failure and asks the scraper for nothing, whatever is stored for the
\* process number and whatever force_update is
C17_UnsupportedCourtFails ==
  \A pn \in SeqNums, court_id \in UnsupportedCourts, force \in BOOLEAN,
     site \in SpecSites :
    \A r \in {scrape_process(processes, now, pn, court_id, force, site)} :
      ~r.outcome.success /\ ~r.scraper /\ r.facets = << >>

\* the spellings whose upper case is a key of _scrapers
RegisteredSpellings == {"TJSP", "tjsp", "Tjsp"}

\* C18: create returns a new instance of the registered class exactly for
\* the acronyms whose upper case is a key of _scrapers and raises for every
\* other one, and no call changes what get_available_courts returns
C18_RegistryFailsClosed ==
  /\ [](/\ factory.last.op = "create" =>
            /\ (factory.last.result # None)
                 <=> (factory.last.acronym \in RegisteredSpellings)
            /\ (factory.last.result # None) =>
                 (factory.last.result[1].class = "TJSPScraper")
        /\ \A i, j \in DOMAIN factory.instances :
             /\ (i # j) => (factory.instances[i].id # factory.instances[j].id)
             /\ factory.instances[i].class = factory.instances[j].class
        /\ (factory.last.op = "get_available_courts") =>
             (factory.last.result = Some({"TJSP"}))
        /\ DOMAIN factory.scrapers = {"TJSP"})
  /\ [][/\ factory'.scrapers = factory.scrapers
        /\ (factory'.last.result = None) => (factory'.instances = factory.instances)
        /\ (factory'.last.op = "create" /\ factory'.last.result # None) =>
             /\ Len(factory'.instances) = Len(factory.instances) + 1
             /\ \A i \in DOMAIN factory.instances :
                  factory.instances[i].id # factory'.last.result[1].id]_vars

\* instances made for "tjsp" and for "TJSP", then a call that raised
C18_Witness ==
  /\ Len(factory.instances) = 2
  /\ factory.instances[1].acronym = "tjsp" /\ factory.instances[2].acronym = "TJSP"
  /\ factory.last.op = "create" /\ factory.last.acronym = "stj"
  /\ factory.last.result = None

\* C20: no call of scrape_process (create, update or recorded failure) and
\* no call of update_process removes a stored process or changes its
\* process_number
C20_ProcessNumberImmutable ==
  [][\A p \in DOMAIN processes :
       /\ p \in DOMAIN processes'
       /\ processes'[p].process_number = processes[p].process_number]_vars

\* a process created by a scrape, with a recorded failure, then changed by
\* update_process
C20_Witness ==
  /\ call.op = "update_process" /\ call.existed
  /\ "p1" \in DOMAIN processes
  /\ processes["p1"].process_number = "p1"
  /\ processes["p1"].subject = "b"
  /\ processes["p1"].scraping_errors > 0
  /\ processes["p1"].last_scraped_at # None

\* a string of exactly 20 characters, all digits
IsDigits20(s) == Len(s) = 20 /\ \A i \in 1..20 : IsDigit(s[i])

\* the value of a string of at most 9 digits
DecimalValue(s) ==
  LET place[i \in 0..Len(s)] ==
        IF i = 0 THEN 0 ELSE 10 * place[i - 1] + DigitValue(s[i])
  IN place[Len(s)]

\* 98 - (N mod 97) for the 18 digits N = high * 10^9 + low of a 20-digit
\* string: 7 sequential digits, the year and the last 7 digits
CheckValue(d) ==
  LET n18 == << d[1], d[2], d[3], d[4], d[5], d[6], d[7], d[10], d[11], d[12],
                d[13], d[14], d[15], d[16], d[17], d[18], d[19], d[20] >>
      high == DecimalValue(SubSeq(n18, 1, 9))
      low == DecimalValue(SubSeq(n18, 10, 18))
  IN 98 - (((high % 97) * (1000000000 % 97) + (low % 97)) % 97)

\* C23: validate_cnj_number strips the non-digits and returns True exactly
\* when 20 digits remain and the digits at positions 8 and 9 are
\* 98 - (N mod 97); a number it accepts is rejected with any other check pair
C23_Checksum ==
  util.op = "validate_cnj_number" =>
    \A clean \in {SelectSeq(util.number, IsDigit)} :
      /\ util.result <=>
           /\ Len(clean) = 20
           /\ 10 * DigitValue(clean[8]) + DigitValue(clean[9]) = CheckValue(clean)
      /\ util.result =>
           \A dd \in CheckPairs :
             dd # SubSeq(clean, 8, 9) =>
               ~validate_cnj_number(SubSeq(clean, 1, 7) \o dd \o SubSeq(clean, 10, 20))

\* a number in the displayed form was accepted
C23_Witness ==
  /\ util.op = "validate_cnj_number"
  /\ util.result
  /\ Len(util.number) = 25

\* C24: for 20 digits d the displayed form is
\* d[0:7]-d[7:9].d[9:13].d[13].d[14:16].d[16:20]; stripping its non-digits
\* gives d, its extracted parts concatenated give d, and formatting it
\* again returns it unchanged
C24_FormatRoundTrip ==
  (util.op = "_format_process_number" /\ IsDigits20(util.number)) =>
    \A d \in {util.number}, parts \in {extract_process_parts(util.result)} :
      /\ util.result =
           << d[1], d[2], d[3], d[4], d[5], d[6], d[7], "-", d[8], d[9], ".",
              d[10], d[11], d[12], d[13], ".", d[14], ".", d[15], d[16], ".",
              d[17], d[18], d[19], d[20] >>
      /\ SelectSeq(util.result, IsDigit) = d
      /\ DOMAIN parts = {"sequential", "verification_digit", "year",
                         "justice_segment", "court", "origin"}
      /\ parts.sequential \o parts.verification_digit \o parts.year
           \o parts.justice_segment \o parts.court \o parts.origin = d
      /\ format_process_number(util.result) = util.result

\* the number of the unit test was formatted
C24_Witness ==
  /\ util.op = "_format_process_number"
  /\ util.number = Str(<< 1, 2, 3, 4, 5, 6, 7, 8, 9, 2, 0, 2, 4, 1, 2, 3, 4, 5, 6, 7 >>)
  /\ util.result = << "1", "2", "3", "4", "5", "6", "7", "-", "8", "9", ".",
                      "2", "0", "2", "4", ".", "1", ".", "2", "3", ".",
                      "4", "5", "6", "7" >>

\* the 20 digits of a stored process number
Normalized(process_number) == SelectSeq(NumberText[process_number], IsDigit)

\* C21: no two stored processes have the same digits once the non-digits
\* are stripped from their process numbers
C21_UniqueNormalizedIdentity ==
  \A p, q \in DOMAIN processes :
    p # q => Normalized(processes[p].process_number)
             # Normalized(processes[q].process_number)

\* C22: create_process raises and leaves the processes unchanged when the
\* court is not stored or a process with the same number (the same 20
\* digits) is stored, and otherwise adds exactly one process
C22_RegistrationUnique ==
  [][call'.op = "create_process" /\ Len(Normalized(call'.process_number)) = 20 =>
       IF \/ call'.court_id \notin DOMAIN Courts
          \/ \E p \in DOMAIN processes :
               Normalized(processes[p].process_number)
               = Normalized(call'.process_number)
         THEN ~call'.outcome.success /\ processes' = processes
         ELSE /\ call'.outcome.success
              /\ Cardinality(DOMAIN processes') = Cardinality(DOMAIN processes) + 1
              /\ \A p \in DOMAIN processes :
                   p \in DOMAIN processes' /\ processes'[p] = processes[p]]_vars

\* C25: a batch asked for with force_update = true has no cached result
C25_BatchForceUpdate ==
  (Returned /\ batch.force_update) =>
    \A i \in DOMAIN BatchResult.results :
      ~(IsDict(BatchResult.results[i]) /\ BatchResult.results[i].cached)

\* the gate lets the call for pn pass: forced, or nothing stored, or never
\* scraped, or scraped one hour ago or earlier
GatePasses(pn, force) ==
  \/ force
  \/ pn \notin DOMAIN processes
  \/ processes[pn].last_scraped_at = None
  \/ now - processes[pn].last_scraped_at[1] >= TicksPerHour

\* C26 as stated: whenever the gate passes the scraper is used and the
\* result is not cached, and a cached result is returned only when the gate
\* does not pass
C26_Original ==
  \A pn \in Numbers, court_id \in CourtIds, force \in BOOLEAN, site \in RegistrationSites :
    \A r \in {scrape_process(processes, now, pn, court_id, force, site)} :
      /\ GatePasses(pn, force) => (r.scraper /\ r.facets # << >> /\ ~r.outcome.cached)
      /\ r.outcome.cached => ~GatePasses(pn, force)

\* C26 amended: whenever the gate passes the result is not cached, and the
\* scraper is used when the court is stored and has a registered scraper; a
\* cached result is returned only when the gate does not pass
C26_GatePassesWhenNotFresh ==
  \A pn \in Numbers, court_id \in CourtIds, force \in BOOLEAN, site \in RegistrationSites :
    \A r \in {scrape_process(processes, now, pn, court_id, force, site)} :
      /\ GatePasses(pn, force) => ~r.outcome.cached
      /\ (GatePasses(pn, force) /\ court_id = "c1") => (r.scraper /\ r.facets # << >>)
      /\ r.outcome.cached => ~GatePasses(pn, force)

\* a registered process, never scraped, was scraped without force_update
C26_Witness ==
  /\ call.op = "scrape_process" /\ call.existed /\ ~call.force_update
  /\ call.was_last_scraped_at = None
  /\ call.scraper /\ call.facets # << >> /\ ~call.outcome.cached

\* C27: after a forced scrape of a stored process that succeeds, every field
\* of the page, distribution_date included, holds the value of the page
C27_LastWriteWins ==
  \A pn \in DOMAIN processes, site \in SpecSites :
    \A r \in {scrape_process(processes, now, pn, "c1", TRUE, site)} :
      (r.outcome.success /\ ~r.outcome.cached) =>
        \A k \in DOMAIN site.data \cap FieldNames : r.db[pn][k] = site.data[k]

\* C28: the slots taken from the semaphore are those of the tasks inside
\* scrape_process; a task that ends, with any dict or with an exception,
\* gives back exactly one slot, the value rises for no other reason, and
\* when the batch has returned the semaphore has its full value
C28_SlotReleased ==
  /\ [](batch.state # "idle" =>
          /\ semaphore + Cardinality(Running) = batch.max_concurrent
          /\ Returned => semaphore = batch.max_concurrent)
  /\ [][batch.state = "running" =>
          /\ \A i \in DOMAIN tasks :
               (i \in Running /\ tasks'[i].pc = "done") => semaphore' = semaphore + 1
          /\ semaphore' > semaphore =>
               \E i \in Running : tasks'[i].pc = "done"
          /\ \A i \in DOMAIN tasks :
               tasks[i].pc = "done" => tasks'[i] = tasks[i]]_vars

\* a returned batch with a raised exception and a failure among its results
\* and every slot free
C28_Witness ==
  /\ Returned
  /\ batch.max_concurrent >= 1 /\ semaphore = batch.max_concurrent
  /\ \E i, j, k \in DOMAIN BatchResult.results :
       /\ BatchResult.results[i] = RaisedException
       /\ IsDict(BatchResult.results[j]) /\ ~BatchResult.results[j].success
       /\ IsDict(BatchResult.results[k]) /\ BatchResult.results[k].success

\* C29: scrape_process with a court id that is not stored returns a
\* failure, creates no scraper, calls no facet and leaves every stored
\* process as it was
C29_MissingCourt ==
  \A pn \in ProcNums, court_id \in CourtIds \ DOMAIN Courts, force \in BOOLEAN,
     site \in SpecSites :
    \A r \in {scrape_process(processes, now, pn, court_id, force, site)} :
      /\ ~r.outcome.success /\ ~r.outcome.cached
      /\ ~r.scraper /\ r.facets = << >>
      /\ r.db = processes

\* a forced call with the unknown court id for a stored process failed
\* and left its error count and its timestamp alone
C29_Witness ==
  /\ call.op = "scrape_process" /\ call.court_id = "c0"
  /\ call.existed /\ call.force_update
  /\ ~call.outcome.success /\ ~call.scraper
  /\ processes[call.process_number].scraping_errors = call.was_scraping_errors
  /\ processes[call.process_number].last_scraped_at = call.was_last_scraped_at

\* C30: in every step every stored process stays stored and each of its
\* movement rows and document rows is still there, as often as before and
\* with the same attributes
C30_AppendOnly ==
  [][\A p \in DOMAIN processes :
       /\ p \in DOMAIN processes'
       /\ processes[p].movements \sqsubseteq processes'[p].movements
       /\ processes[p].documents \sqsubseteq processes'[p].documents]_vars

\* a forced scrape whose page listed no movement and no document succeeded
\* for a process that has both
C30_Witness ==
  /\ call.op = "scrape_process" /\ call.existed /\ call.force_update
  /\ call.outcome.success /\ ~call.outcome.cached
  /\ call.outcome.movements_count = 0 /\ call.outcome.documents_count = 0
  /\ processes[call.process_number].movements # EmptyBag
  /\ processes[call.process_number].documents # EmptyBag

\* the pairs of finished tasks of the batch for the same process number
SameNumberPairs ==
  {ij \in (DOMAIN tasks) \X (DOMAIN tasks) :
     /\ ij[1] < ij[2]
     /\ batch.process_numbers[ij[1]] = batch.process_numbers[ij[2]]
     /\ tasks[ij[1]].pc = "done" /\ tasks[ij[2]].pc = "done"}

\* the task reached the write with its page
Wrote(i) == tasks[i].site # None

\* C31: two tasks of a batch for the same number are not serialized. When
\* both read the same stored process before either wrote and both wrote
\* their page, the movement of the page that the process did not have is
\* stored twice; when both found no process and both reached the write, both
\* took the create path and exactly one of them failed; when both failed
\* after reading the same error count, the count rose by one only
C31_SameCaseRace ==
  \A ij \in SameNumberPairs :
    \A i \in {ij[1]}, j \in {ij[2]}, pn \in {batch.process_numbers[ij[1]]} :
      /\ (/\ Wrote(i) /\ Wrote(j)
          /\ tasks[i].process # None /\ tasks[i].process = tasks[j].process
          /\ tasks[i].result[1].success /\ tasks[j].result[1].success) =>
           \A m \in {MovementRow(FirstMovement)} :
             ~BagIn(m, tasks[i].process[1].movements) =>
               CopiesIn(m, processes[pn].movements) = 2
      /\ (/\ Wrote(i) /\ Wrote(j)
          /\ tasks[i].process = None /\ tasks[j].process = None) =>
           /\ tasks[i].result[1].success # tasks[j].result[1].success
           /\ pn \in DOMAIN processes
      /\ (/\ ~tasks[i].result[1].success /\ ~tasks[j].result[1].success
          /\ tasks[i].process # None /\ tasks[i].process = tasks[j].process) =>
           processes[pn].scraping_errors = tasks[i].process[1].scraping_errors + 1

\* both tasks read the process without the movement and both appended it
C31_Witness ==
  /\ Returned
  /\ \E ij \in SameNumberPairs :
       /\ Wrote(ij[1]) /\ Wrote(ij[2])
       /\ tasks[ij[1]].process # None
       /\ tasks[ij[1]].process = tasks[ij[2]].process
       /\ tasks[ij[1]].process[1].movements = EmptyBag
       /\ CopiesIn(MovementRow(FirstMovement), processes["p1"].movements) = 2

\* C32: inside scrape_process the facets run in the order search_process,
\* get_movements, get_documents; a facet that raises ends the extraction, so
\* no later facet runs; the stored data change only on the step that leaves
\* the scraper, and a change other than the recorded failure happens only
\* when get_documents, the last facet, has returned
C32_ExtractionPrecedesReconciliation ==
  [][(scraper.caller = "scrape_process" /\ scraper' # scraper) =>
       /\ (scraper.pc \notin Facets /\ scraper'.pc \in Facets) =>
            scraper'.pc = "search_process"
       /\ (scraper.pc \in Facets /\ scraper'.pc # scraper.pc) =>
            \/ scraper'.pc = "returned"
            \/ << scraper.pc, scraper'.pc >> \in
                 {<< "search_process", "get_movements" >>,
                  << "get_movements", "get_documents" >>}
       /\ (processes' # processes) =>
            (scraper.pc \in Facets /\ scraper'.pc = "returned")
       /\ (scraper.pc \in Facets /\ scraper'.pc = "returned") =>
            \A before \in {get_by_process_number(processes,
                                                 scraper.process_number)} :
              /\ scraper'.outcome[1].success => scraper.pc = "get_documents"
              /\ ~scraper'.outcome[1].success =>
                   /\ DOMAIN processes' = DOMAIN processes
                   /\ before # None =>
                        \A f \in FieldNames \cup {"movements", "documents"} :
                          processes'[scraper.process_number][f] = before[1][f]
              /\ processes' # RecordError(processes, before, now) =>
                   (scraper.pc = "get_documents" /\ scraper'.outcome[1].success)
    ]_vars

\* search_process returned the page of a process that is not stored, a later
\* facet raised, and the process is still not stored
C32_Witness ==
  /\ scraper.caller = "scrape_process" /\ scraper.pc = "returned"
  /\ ~scraper.outcome[1].success
  /\ scraper.fetched # None /\ scraper.fetched[1].result = "body"
  /\ scraper.process_number \notin DOMAIN processes

\* C33: on every fetched page, whatever optional elements it has or lacks,
\* search_process and get_movements return without raising, and an optional
\* field is in the dict of search_process only if its element is on the page
C33_MissingMarkupIsAbsence ==
  /\ util.op = "search_process" =>
       /\ ~util.result.raised
       /\ \A f \in OptionalFields :
            f \in DOMAIN util.result.value[1] => util.number.page[f] # "absent"
  /\ util.op = "get_movements" => ~util.result.raised

\* the pages other than those that hold areaProcesso or valorAcaoProcesso with
\* no span inside: on them nothing raises, the optional fields of the
\* dict are those whose element is on the page, and a movement is returned
\* for each row that has its date cell and its description cell
CompleteContainersParse ==
  /\ (/\ util.op = "search_process"
      /\ util.number.page.area # "container"
      /\ util.number.page.case_value # "container") =>
       /\ ~util.result.raised
       /\ \A f \in OptionalFields :
            f \in DOMAIN util.result.value[1] <=> util.number.page[f] # "absent"
  /\ util.op = "get_movements" =>
       /\ ~util.result.raised
       /\ Len(util.result.value[1]) =
            IF util.number.table = None THEN 0
            ELSE Cardinality({i \in DOMAIN util.number.table[1] :
                                /\ util.number.table[1][i].date_cell
                                /\ util.number.table[1][i].desc_cell})

\* C34: the result of clean_text has no whitespace at its ends and no two
\* whitespace characters in a row, its other characters are those of the
\* text in the same order, and clean_text leaves it unchanged
C34_WhitespaceNormalization ==
  util.op = "clean_text" =>
    \A text \in {util.number.text}, r \in {util.result} :
      /\ r # << >> => (~IsSpace(r[1]) /\ ~IsSpace(r[Len(r)]))
      /\ \A i \in 1..(Len(r) - 1) : ~(IsSpace(r[i]) /\ IsSpace(r[i + 1]))
      /\ SelectSeq(r, LAMBDA c : ~IsSpace(c)) = SelectSeq(text, LAMBDA c : ~IsSpace(c))
      /\ clean_text(r) = r

\* a text with whitespace at both ends and a run of whitespace inside
C34_Witness ==
  /\ util.op = "clean_text"
  /\ util.number.text = << " ", "a", "\t", "\n" >>
  /\ util.result = << "a" >>

\* C35: after scrape_process has failed on a stored process that was not
\* fresh before the call, the next scrape_process of that number with
\* force_update=False uses the scraper again: it does not return the cached
\* result
C35_FailureNotFresh ==
  (/\ call.op = "scrape_process" /\ call.existed /\ call.scraper
   /\ ~call.outcome.success
   /\ \/ call.was_last_scraped_at = None
      \/ now - call.was_last_scraped_at[1] >= TicksPerHour) =>
    \A site \in SpecSites :
      \A r \in {scrape_process(processes, now, call.process_number, "c1",
                               FALSE, site)} :
        r.scraper /\ ~r.outcome.cached

\* what the court site did for task i: the extraction it wrote, or the
\* failure of search_process
SiteOf(i) == IF tasks[i].site # None THEN tasks[i].site[1] ELSE Failure("search_process")

\* scrape_process called for numbers[k], numbers[k+1], ... one call after the
\* other at time t: the stored processes and the outcomes at the end
RECURSIVE OneAfterAnother(_, _, _, _, _)
OneAfterAnother(db, t, numbers, k, outcomes) ==
  IF k > Len(numbers) THEN [db |-> db, outcomes |-> outcomes]
  ELSE LET r == scrape_process(db, t, numbers[k], "c1", FALSE, SiteOf(k))
       IN OneAfterAnother(r.db, t, numbers, k + 1, Append(outcomes, r.outcome))

\* C36: a batch over pairwise distinct numbers, whatever the order in which
\* its tasks ran, returns the outcomes and leaves the stored processes (their
\* fields, movements, documents and error counts) that scrape_process gives
\* when called for the numbers one after the other in list order
C36_OrderIndependent ==
  (batch.state = "returned" /\ "started_with" \in DOMAIN batch) =>
    \A seq \in {OneAfterAnother(batch.started_with, now, batch.process_numbers,
                                1, << >>)} :
      /\ batch.result[1].results = seq.outcomes
      /\ processes = seq.db

\* a batch over two numbers, one stored and scraped again, one not stored
\* whose scrape failed, with one task failing and one writing
C36_Witness ==
  /\ batch.state = "returned" /\ "started_with" \in DOMAIN batch
  /\ Len(batch.process_numbers) = 2
  /\ DOMAIN batch.started_with = {batch.process_numbers[2]}
  /\ batch.result[1].results[2].success /\ ~batch.result[1].results[2].cached
  /\ ~batch.result[1].results[1].success
  /\ processes # batch.started_with

\* C37: a batch with max_concurrent = 0 and a non-empty list starts no task
\* and never returns; a batch with an empty list returns, for every
\* max_concurrent, with total, success and errors all 0
C37_ZeroCapacity ==
  /\ []((/\ batch.state # "idle" /\ batch.max_concurrent = 0
         /\ batch.process_numbers # << >>) =>
          /\ ~Returned
          /\ \A i \in DOMAIN tasks : tasks[i].pc = "pending"
          /\ processes = EmptyDb)
  /\ (batch.state = "running" /\ batch.process_numbers = << >>) ~> Returned
  /\ []((Returned /\ batch.process_numbers = << >>) =>
          /\ BatchResult.total = 0 /\ BatchResult.success = 0
          /\ BatchResult.errors = 0 /\ BatchResult.results = << >>)

\* the batch of two numbers that waits for a semaphore that starts at zero
C37_Witness ==
  /\ batch.state = "running" /\ batch.max_concurrent = 0 /\ semaphore = 0
  /\ Len(batch.process_numbers) = 2
  /\ \A i \in DOMAIN tasks : tasks[i].pc = "pending"

\* C38: get_processes_to_scrape(court, hours, limit) returns at most limit
\* processes, all of that court, each never scraped or last scraped more
\* than hours hours before the call, the never scraped ones first and then
\* by last_scraped_at, oldest first
C38_StaleSelection ==
  util.op = "get_processes_to_scrape" =>
    /\ Len(util.result) <= util.limit
    /\ \A i \in DOMAIN util.result :
         /\ util.result[i].court_id = util.court_id
         /\ \/ util.result[i].last_scraped_at = None
            \/ util.at - util.result[i].last_scraped_at[1]
                 > util.hours * TicksPerHour
    /\ \A i, j \in DOMAIN util.result :
         i < j => NullsFirstAsc(util.result[i], util.result[j])

====
